---- MODULE Spec2Model ----
(***************************************************************************)
(* Per-node resource inventory and placement engine of nhd (Node.py).      *)
(* The inventory (cores, GPUs, NICs, hugepages, scheduled pods) is the     *)
(* state; every public mutator of Node is one atomic action.               *)
(* Python lists are 0-based: the core list is a function on 0..N-1, the    *)
(* GPU and NIC lists are sequences read through At (position p is p+1).    *)
(* Bandwidth is counted in whole Gbps.                                     *)
(* placed is a history variable: the inputs and the outcome of the latest   *)
(* SetPhysicalIdsFromMapping call, or <<>> before the first one.            *)
(* labels is the label dictionary the node is ingested from. Strings that   *)
(* the code takes apart (MACs, interface names) are sequences of characters.*)
(* live is the caller's record of the bound topologies it placed and has    *)
(* not released.                                                            *)
(***************************************************************************)
EXTENDS Integers, Sequences, FiniteSets, TLC

VARIABLES node, cores, gpus, nics, mem, pods_scheduled, top, op, calls, placed,
          labels, live

vars == <<node, cores, gpus, nics, mem, pods_scheduled, top, op, calls, placed,
          labels, live>>

(* ---------------------------------------------------------------------- *)
(* Bounds of the model                                                     *)
(* ---------------------------------------------------------------------- *)
\* calls made on the node after discovery in one run
MaxCalls == 3
\* total hugepages handed to SetHugepages range over 0..MaxHugepages
MaxHugepages == 1
\* bookkeeping that the code lets drift without limit is explored this far
\* beyond its legal range (hugepages, pods per NIC)
MaxDrift == 1
\* NIC bandwidth drift explored, in Gbps
MaxBwDrift == 10

(* ---------------------------------------------------------------------- *)
(* Helpers                                                                 *)
(* ---------------------------------------------------------------------- *)
At(s, p) == s[p + 1]

InRangePy(s, p) == p >= 0 /\ p < Len(s)

RECURSIVE SumSeq(_)
SumSeq(s) == IF s = <<>> THEN 0 ELSE Head(s) + SumSeq(Tail(s))

(* ---------------------------------------------------------------------- *)
(* Discovery: cores                                                        *)
(* ---------------------------------------------------------------------- *)
NodeCore(core, socket, sib) ==
    [core |-> core, sibling |-> sib, socket |-> socket, used |-> FALSE]

\* the socket of a logical core taken from its index without the wrap at the
\* core count
ProcOf_NoWrap(c, ncores, sockets) == (c * sockets) \div ncores

\* proc = int(int(c % cores) // (cores/self.sockets)), a float division
\* followed by a floor: the largest p with p * cores <= (c % cores) * sockets
ProcOf(c, ncores, sockets) == ((c % ncores) * sockets) \div ncores

\* a range read without its upper end, range(lo, hi)
ParseRange_Exclusive(r) == r[1] .. (r[2] - 1)

\* ParseRange: "lo-hi" (or a single number, lo = hi) is range(lo, hi + 1)
ParseRange(r) == r[1] .. r[2]

\* a comma-separated list of ranges, as the set of the numbers it covers
ParseRangeList(rl) == UNION {ParseRange(rl[k]) : k \in 1 .. Len(rl)}

\* the isolcpus label is split at underscores into range lists
IsolCores(isolrange) ==
    UNION {ParseRangeList(isolrange[k]) : k \in 1 .. Len(isolrange)}

\* isol.present: the isolcpus label exists; isol.ranges: its value
InitCores(sockets, ncores, smt, isol) ==
    LET n == IF smt THEN ncores * 2 ELSE ncores
        sib(c) == IF smt THEN (IF c < ncores THEN c + ncores ELSE c - ncores)
                  ELSE -1
        nonisol == IF ~isol.present THEN {}
                   ELSE (0 .. (n - 1)) \ IsolCores(isol.ranges)
    IN [cores |-> [c \in 0 .. (n - 1) |->
                     [NodeCore(c, ProcOf(c, ncores, sockets), sib(c))
                        EXCEPT !.used = (c \in nonisol)]],
        reserved_cores |-> nonisol,
        sockets |-> sockets,
        numa_nodes |-> sockets,
        smt_enabled |-> smt,
        cores_per_proc |-> ncores \div sockets]

(* ---------------------------------------------------------------------- *)
(* Discovery: NICs and GPUs                                                *)
(* ---------------------------------------------------------------------- *)
\* str.upper() on one character of a MAC
Upper(ch) ==
    CASE ch = "a" -> "A" [] ch = "b" -> "B" [] ch = "c" -> "C"
      [] ch = "d" -> "D" [] ch = "e" -> "E" [] ch = "f" -> "F"
      [] OTHER -> ch

\* ':'.join(a+b for a,b in zip(mac[::2],mac[1::2])).upper(): the characters
\* are paired off (an odd last one is dropped) and the pairs joined by colons
FormatMac(mac) ==
    LET n == Len(mac) \div 2
    IN [k \in 1 .. (IF n = 0 THEN 0 ELSE 3 * n - 1) |->
          IF k % 3 = 0 THEN ":"
          ELSE Upper(mac[2 * ((k - 1) \div 3) + ((k - 1) % 3) + 1])]

NodeNic(ifname, mac, speed, numa_node) ==
    [ifname |-> ifname, mac |-> FormatMac(mac), speed |-> speed,
     numa_node |-> numa_node, speed_used |-> <<0, 0>>, pods_used |-> 0,
     idx |-> -1]

\* "Mbs" threshold under which a NIC is not schedulable
SCHEDULABLE_NIC_SPEED_THRESH_MBPS == 11000

\* 'f1' in ifname
HasF1(ifname) ==
    \E k \in 1 .. (Len(ifname) - 1) : ifname[k] = "f" /\ ifname[k + 1] = "1"

\* the loop over the NIC labels: l.ifname, l.mac, l.numa_node as decoded from
\* the key, l.mbs whether the speed field holds 'Mbs', l.speed the number
\* before it
RECURSIVE AppendNics(_, _, _)
AppendNics(ls, k, ns) ==
    IF k > Len(ls) THEN ns
    ELSE LET l == ls[k]
         IN IF HasF1(l.ifname) THEN AppendNics(ls, k + 1, ns)
            ELSE IF ~l.mbs THEN AppendNics(ls, k + 1, ns)
            ELSE IF l.speed < SCHEDULABLE_NIC_SPEED_THRESH_MBPS
                 THEN AppendNics(ls, k + 1, ns)
            ELSE AppendNics(ls, k + 1,
                            Append(ns, NodeNic(l.ifname, l.mac, l.speed \div 1000,
                                               l.numa_node)))

\* node indices from one counter over all NICs instead of one per NUMA node
RECURSIVE SetNodeIndices_OneCounter(_, _, _)
SetNodeIndices_OneCounter(ns, k, nidx) ==
    IF k > Len(ns) THEN ns
    ELSE SetNodeIndices_OneCounter([ns EXCEPT ![k].idx = k - 1], k + 1, nidx)

\* "Set all the node indices": the per-NUMA running counter nidx
RECURSIVE SetNodeIndices(_, _, _)
SetNodeIndices(ns, k, nidx) ==
    IF k > Len(ns) THEN ns
    ELSE LET numa == ns[k].numa_node
         IN SetNodeIndices([ns EXCEPT ![k].idx = nidx[numa]], k + 1,
                           [nidx EXCEPT ![numa] = @ + 1])

MaxNuma(ns) == CHOOSE m \in {ns[k].numa_node : k \in 1 .. Len(ns)} :
                  \A k \in 1 .. Len(ns) : ns[k].numa_node <= m

InitNics(ls) ==
    LET ns == AppendNics(ls, 1, <<>>)
    IN IF Len(ns) = 0 THEN ns
       ELSE SetNodeIndices(ns, 1, [x \in 0 .. MaxNuma(ns) |-> 0])

NodeGpu(device_id, numa_node) ==
    [device_id |-> device_id, numa_node |-> numa_node, used |-> FALSE]

\* one GPU per GPU label, in label order
InitGpus(ls) ==
    [k \in 1 .. Len(ls) |-> NodeGpu(ls[k].device_id, ls[k].numa_node)]

(* ---------------------------------------------------------------------- *)
(* Queries                                                                 *)
(* ---------------------------------------------------------------------- *)
\* The lookups return the 0-based list position of the object found, or -1
\* where the code returns None.
RECURSIVE GpuByDeviceId(_, _, _)
GpuByDeviceId(gs, p, di) ==
    IF p >= Len(gs) THEN -1
    ELSE IF At(gs, p).device_id = di THEN p
         ELSE GpuByDeviceId(gs, p + 1, di)

GetGPU(gs, di) == GpuByDeviceId(gs, 0, di)

RECURSIVE FreeGpuOnNuma(_, _, _)
FreeGpuOnNuma(gs, p, numa) ==
    IF p >= Len(gs) THEN -1
    ELSE IF At(gs, p).numa_node = numa /\ ~At(gs, p).used THEN p
         ELSE FreeGpuOnNuma(gs, p + 1, numa)

GetNextGpuFree(gs, numa) == FreeGpuOnNuma(gs, 0, numa)

RECURSIVE FirstNic(_, _, _, _)
FirstNic(ns, p, field, key) ==
    IF p >= Len(ns) THEN -1
    ELSE IF (field = "mac" /\ At(ns, p).mac = key)
            \/ (field = "ifname" /\ At(ns, p).ifname = key)
         THEN p
         ELSE FirstNic(ns, p + 1, field, key)

GetNIC(ns, mac) == FirstNic(ns, 0, "mac", mac)

GetNICFromIfName(ns, ifname) == FirstNic(ns, 0, "ifname", ifname)

\* free cores counted by the views: unused and, with SMT on, sibling unused
FreeCore(cs, smt_enabled, c) ==
    ~cs[c].used /\ (smt_enabled => ~cs[cs[c].sibling].used)

GetFreeCpuCoreCount(cs, smt_enabled) ==
    Cardinality({c \in DOMAIN cs : FreeCore(cs, smt_enabled, c)})

\* a free view that counts an unused core whether or not its sibling is used
GetFreeCpuCores_AnySibling(cs, nd) ==
    [k \in 0 .. (nd.numa_nodes - 1) |->
        Cardinality({c \in 0 .. (nd.cores_per_proc * nd.sockets - 1) :
                        cs[c].socket = k /\ ~cs[c].used})]

GetFreeCpuCores(cs, nd) ==
    [k \in 0 .. (nd.numa_nodes - 1) |->
        Cardinality({c \in 0 .. (nd.cores_per_proc * nd.sockets - 1) :
                        cs[c].socket = k /\ FreeCore(cs, nd.smt_enabled, c)})]

\* the scan of GetFreeCpuBatch from list position ci with num still wanted
RECURSIVE FreeCpuScan(_, _, _, _, _, _, _)
FreeCpuScan(cs, smt_enabled, numa, smt, ci, num, cpus) ==
    IF ci \notin DOMAIN cs \/ num = 0 THEN cpus
    ELSE LET c == cs[ci]
         IN IF c.socket = numa /\ ~c.used
            THEN IF smt_enabled
                 THEN IF ~cs[c.sibling].used
                      THEN IF smt = "SMT_ENABLED" /\ num >= 2
                           THEN FreeCpuScan(cs, smt_enabled, numa, smt, ci + 1,
                                            num - 2, cpus \o <<c.core, c.sibling>>)
                           ELSE FreeCpuScan(cs, smt_enabled, numa, smt, ci + 1,
                                            num - 1, Append(cpus, c.core))
                      ELSE FreeCpuScan(cs, smt_enabled, numa, smt, ci + 1, num, cpus)
                 ELSE FreeCpuScan(cs, smt_enabled, numa, smt, ci + 1,
                                  num - 1, Append(cpus, c.core))
            ELSE FreeCpuScan(cs, smt_enabled, numa, smt, ci + 1, num, cpus)

\* the scan of GetFreeCpuBatch started at a cursor that moves with every call
\* made on the node (next-fit) instead of at list position 0
GetFreeCpuBatch_NextFit(cs, smt_enabled, numa, num, smt) ==
    FreeCpuScan(cs, smt_enabled, numa, smt, calls, num, <<>>)

\* a batch that never takes a sibling pair, whatever SMT setting is asked for
GetFreeCpuBatch_NoPairs(cs, smt_enabled, numa, num, smt) ==
    FreeCpuScan(cs, smt_enabled, numa, "SMT_DISABLED", 0, num, <<>>)

\* a batch that takes any unused core of the NUMA node, whether or not its
\* sibling is used
GetFreeCpuBatch_AnySibling(cs, smt_enabled, numa, num, smt) ==
    FreeCpuScan(cs, FALSE, numa, smt, 0, num, <<>>)

GetFreeCpuBatch(cs, smt_enabled, numa, num, smt) ==
    FreeCpuScan(cs, smt_enabled, numa, smt, 0, num, <<>>)

(* ---------------------------------------------------------------------- *)
(* Topology requests (CfgTopology)                                         *)
(* ---------------------------------------------------------------------- *)
SeqRange(s) == {s[k] : k \in 1 .. Len(s)}

\* ids of the cores a processing group names
GroupCoreIds(pv) ==
    {pv.misc_cores[k].core : k \in 1 .. Len(pv.misc_cores)}
    \cup {pv.proc_cores[k].core : k \in 1 .. Len(pv.proc_cores)}
    \cup UNION {{pv.group_gpus[g].cpu_cores[k].core :
                    k \in 1 .. Len(pv.group_gpus[g].cpu_cores)} :
                g \in 1 .. Len(pv.group_gpus)}

\* ids of all cores a topology names
TopCoreIds(t) ==
    UNION {GroupCoreIds(t.proc_groups[g]) : g \in 1 .. Len(t.proc_groups)}
    \cup {t.misc_cores[k].core : k \in 1 .. Len(t.misc_cores)}

\* device ids of all GPUs a topology names
TopGpuIds(t) ==
    UNION {{t.proc_groups[g].group_gpus[k].device_id :
               k \in 1 .. Len(t.proc_groups[g].group_gpus)} :
           g \in 1 .. Len(t.proc_groups)}

\* position of the pairing holding the core of that name, or -1
RECURSIVE FirstPairing(_, _, _)
FirstPairing(ps, p, name) ==
    IF p >= Len(ps) THEN -1
    ELSE IF name \in {At(ps, p).rx_core.name, At(ps, p).tx_core.name} THEN p
         ELSE FirstPairing(ps, p + 1, name)

GetNICGroup(t, core) == FirstPairing(t.nic_core_pairing, 0, core.name)

AddInterface(t, p, mac) == [t EXCEPT !.nic_core_pairing[p + 1].mac = mac]

(* ---------------------------------------------------------------------- *)
(* Reservation ledger                                                      *)
(* ---------------------------------------------------------------------- *)
\* An inventory is the mutable part of a Node: [cores, gpus, nics, mem].
\* a ledger that gives up when a core is already in the state asked for
SetCoresUsed_StopWhenHeld(cs, ids, val) ==
    IF \E c \in ids : cs[c].used = val THEN cs
    ELSE [c \in DOMAIN cs |-> IF c \in ids THEN [cs[c] EXCEPT !.used = val] ELSE cs[c]]

SetCoresUsed(cs, ids, val) ==
    [c \in DOMAIN cs |-> IF c \in ids THEN [cs[c] EXCEPT !.used = val] ELSE cs[c]]

\* "dev = self.GetGPU(g.device_id)": unknown device ids are logged and skipped
SetGpusUsed(gs, ids, val) ==
    [k \in DOMAIN gs |->
        IF gs[k].device_id \in ids /\ GetGPU(gs, gs[k].device_id) = k - 1
        THEN [gs[k] EXCEPT !.used = val] ELSE gs[k]]

\* the loop over top.nic_core_pairing; sign is 1 for Remove, -1 for Add
RECURSIVE LedgerNics(_, _, _, _, _)
LedgerNics(ns, sriov_en, ps, k, sign) ==
    IF k > Len(ps) THEN ns
    ELSE LET p == ps[k]
             nic == IF ~sriov_en THEN GetNIC(ns, p.mac)
                    ELSE GetNICFromIfName(ns, p.mac)
         IN IF nic = -1 THEN LedgerNics(ns, sriov_en, ps, k + 1, sign)
            ELSE LedgerNics(
                   [ns EXCEPT ![nic + 1].speed_used =
                                  <<@[1] + sign * p.rx_core.nic_speed,
                                    @[2] + sign * p.tx_core.nic_speed>>,
                              ![nic + 1].pods_used = @ + sign],
                   sriov_en, ps, k + 1, sign)

RemoveResourcesFromTopology(inv, sriov_en, t) ==
    [cores |-> SetCoresUsed(inv.cores, TopCoreIds(t), TRUE),
     gpus |-> SetGpusUsed(inv.gpus, TopGpuIds(t), TRUE),
     nics |-> LedgerNics(inv.nics, sriov_en, t.nic_core_pairing, 1, 1),
     mem |-> IF t.hugepages_gb > 0
             THEN [inv.mem EXCEPT !.free_hugepages_gb = @ - t.hugepages_gb]
             ELSE inv.mem]

\* AddResourcesFromTopology without its hugepages block (lines 574-577)
AddResourcesFromTopology_NoHugepages(inv, sriov_en, t) ==
    [cores |-> SetCoresUsed(inv.cores, TopCoreIds(t), FALSE),
     gpus |-> SetGpusUsed(inv.gpus, TopGpuIds(t), FALSE),
     nics |-> LedgerNics(inv.nics, sriov_en, t.nic_core_pairing, 1, -1),
     mem |-> inv.mem]

AddResourcesFromTopology(inv, sriov_en, t) ==
    [cores |-> SetCoresUsed(inv.cores, TopCoreIds(t), FALSE),
     gpus |-> SetGpusUsed(inv.gpus, TopGpuIds(t), FALSE),
     nics |-> LedgerNics(inv.nics, sriov_en, t.nic_core_pairing, 1, -1),
     mem |-> IF t.hugepages_gb > 0
             THEN [inv.mem EXCEPT !.free_hugepages_gb = @ + t.hugepages_gb]
             ELSE inv.mem]

ResetResources(inv, reserved_cores) ==
    [cores |-> [c \in DOMAIN inv.cores |->
                  IF inv.cores[c].core \notin reserved_cores
                  THEN [inv.cores[c] EXCEPT !.used = FALSE] ELSE inv.cores[c]],
     gpus |-> [k \in DOMAIN inv.gpus |-> [inv.gpus[k] EXCEPT !.used = FALSE]],
     nics |-> [k \in DOMAIN inv.nics |->
                 [inv.nics[k] EXCEPT !.pods_used = 0, !.speed_used = <<0, 0>>]],
     mem |-> [inv.mem EXCEPT !.free_hugepages_gb = inv.mem.ttl_hugepages_gb]]

SetHugepages(inv, alloc, free) ==
    [inv EXCEPT !.mem = [ttl_hugepages_gb |-> alloc, free_hugepages_gb |-> free]]

RECURSIVE ClaimPodNICResources(_, _)
ClaimPodNICResources(ns, nidx) ==
    IF nidx = <<>> THEN ns
    ELSE ClaimPodNICResources([ns EXCEPT ![Head(nidx) + 1].pods_used = @ + 1],
                              Tail(nidx))

(* ---------------------------------------------------------------------- *)
(* Placement engine: SetPhysicalIdsFromMapping                             *)
(* ---------------------------------------------------------------------- *)
\* A run record st carries the inventory and topology as mutated so far, the
\* three rollback lists, the cursor cidx into the current batch, and status:
\* "run", "IndexError" (raise IndexError) or "None" (return None).
RxTx == {"NIC_CORE_DIRECTION_RX", "NIC_CORE_DIRECTION_TX"}

\* the NIC lookup of the placement matching the ordinal alone, on any NUMA node
RECURSIVE FindNicIndex_AnyNuma(_, _, _, _)
FindNicIndex_AnyNuma(ns, ni, nicmap, numa) ==
    IF ni >= Len(ns) THEN -1
    ELSE IF nicmap = At(ns, ni).idx THEN ni
         ELSE FindNicIndex_AnyNuma(ns, ni + 1, nicmap, numa)

\* position of the NIC with nic.idx = nicmap on the group's NUMA node, or -1
RECURSIVE FindNicIndex(_, _, _, _)
FindNicIndex(ns, ni, nicmap, numa) ==
    IF ni >= Len(ns) THEN -1
    ELSE IF nicmap = At(ns, ni).idx /\ At(ns, ni).numa_node = numa THEN ni
         ELSE FindNicIndex(ns, ni + 1, nicmap, numa)

\* "for gpu_cpu in gv.cpu_cores": the cores of GPU gi take the next batch entries
AssignGpuCpuCores(st, pi, gi, group_cpus) ==
    LET n == Len(st.top.proc_groups[pi].group_gpus[gi].cpu_cores)
        got == {At(group_cpus, st.cidx + k) : k \in 0 .. (n - 1)}
    IN [st EXCEPT
          !.top.proc_groups[pi].group_gpus[gi].cpu_cores =
              [k \in 1 .. n |-> [@[k] EXCEPT !.core = At(group_cpus, st.cidx + k - 1)]],
          !.cores = SetCoresUsed(@, got, TRUE),
          !.cidx = @ + n]

\* "for gv in pv.group_gpus"
RECURSIVE AssignGpus(_, _, _, _, _)
AssignGpus(st, pi, gi, numa, group_cpus) ==
    IF gi > Len(st.top.proc_groups[pi].group_gpus) THEN st
    ELSE LET gdev == GetNextGpuFree(st.gpus, numa)
         IN IF gdev = -1 THEN [st EXCEPT !.status = "IndexError"]
            ELSE AssignGpus(
                   AssignGpuCpuCores(
                     [st EXCEPT
                        !.top.proc_groups[pi].group_gpus[gi].device_id =
                            At(st.gpus, gdev).device_id,
                        !.gpus[gdev + 1].used = TRUE,
                        !.used_gpus = Append(@, At(st.gpus, gdev).device_id)],
                     pi, gi, group_cpus),
                   pi, gi + 1, numa, group_cpus)

\* the NIC part of one processing core with a direction
ChargeNic(st, pi, ci, numa, mapping, sriov_en) ==
    LET groupc == st.top.proc_groups[pi].proc_cores[ci]
        nicmap == mapping.nic[pi][2]
        idx == FindNicIndex(st.nics, 0, nicmap, numa)
        sidx == IF groupc.nic_dir = "NIC_CORE_DIRECTION_RX" THEN 0 ELSE 1
        charged == [st EXCEPT
                      !.nics[idx + 1].speed_used[sidx + 1] = @ + groupc.nic_speed,
                      !.used_nics = Append(@, <<idx, groupc.nic_speed, groupc.nic_dir>>)]
        ng == GetNICGroup(st.top, groupc)
    IN IF idx = -1 THEN [st EXCEPT !.status = "IndexError"]
       ELSE IF ng = -1 THEN [charged EXCEPT !.status = "IndexError"]
       ELSE [charged EXCEPT
               !.top = AddInterface(@, ng,
                          IF sriov_en THEN At(st.nics, idx).ifname
                          ELSE At(st.nics, idx).mac)]

\* "for groupc in pv.proc_cores"
RECURSIVE AssignProcCores(_, _, _, _, _, _, _)
AssignProcCores(st, pi, ci, numa, group_cpus, mapping, sriov_en) ==
    IF ci > Len(st.top.proc_groups[pi].proc_cores) THEN st
    ELSE LET core == At(group_cpus, st.cidx)
             taken == [st EXCEPT
                         !.top.proc_groups[pi].proc_cores[ci].core = core,
                         !.cores[core].used = TRUE,
                         !.cidx = @ + 1]
             next == IF st.top.proc_groups[pi].proc_cores[ci].nic_dir \in RxTx
                     THEN ChargeNic(taken, pi, ci, numa, mapping, sriov_en)
                     ELSE taken
         IN IF next.status # "run" THEN next
            ELSE AssignProcCores(next, pi, ci + 1, numa, group_cpus, mapping, sriov_en)

\* cores of a misc list take the batch entries in order
AssignMisc(misc_cores, batch) ==
    [k \in 1 .. Len(misc_cores) |-> [misc_cores[k] EXCEPT !.core = batch[k]]]

\* "Assign the helper cores" of group pi
AssignHelpers(st, pi, numa, smt_enabled) ==
    LET pv == st.top.proc_groups[pi]
        helper_req == GetFreeCpuBatch(st.cores, smt_enabled, numa,
                                      Len(pv.misc_cores), pv.helper_smt)
    IN IF Len(pv.misc_cores) # Len(helper_req) THEN [st EXCEPT !.status = "None"]
       ELSE [st EXCEPT
               !.top.proc_groups[pi].misc_cores = AssignMisc(@, helper_req),
               !.cores = SetCoresUsed(@, SeqRange(helper_req), TRUE),
               !.used_cpus = @ \o helper_req]

\* one pass of "for pi,pv in enumerate(top.proc_groups)"
PlaceGroup(st, pi, mapping, nd) ==
    LET pv == st.top.proc_groups[pi]
        group_numa_node == mapping.gpu[pi]
        gcpu_req == Len(pv.proc_cores)
                    + SumSeq([g \in 1 .. Len(pv.group_gpus) |->
                                 Len(pv.group_gpus[g].cpu_cores)])
        group_cpus == GetFreeCpuBatch(st.cores, nd.smt_enabled, group_numa_node,
                                      gcpu_req, pv.proc_smt)
        st0 == [st EXCEPT !.top.proc_groups[pi].vlan = nd.data_vlan, !.cidx = 0]
        st1 == AssignGpus(st0, pi, 1, group_numa_node, group_cpus)
        st2 == AssignProcCores(st1, pi, 1, group_numa_node, group_cpus, mapping,
                               nd.sriov_en)
    IN IF Len(group_cpus) # gcpu_req THEN [st0 EXCEPT !.status = "IndexError"]
       ELSE IF st1.status # "run" THEN st1
       ELSE IF st2.status # "run" THEN st2
       ELSE IF st2.cidx # Len(group_cpus) THEN [st2 EXCEPT !.status = "IndexError"]
       ELSE AssignHelpers([st2 EXCEPT !.used_cpus = @ \o group_cpus],
                          pi, group_numa_node, nd.smt_enabled)

RECURSIVE PlaceGroups(_, _, _, _)
PlaceGroups(st, pi, mapping, nd) ==
    IF pi > Len(st.top.proc_groups) \/ st.status # "run" THEN st
    ELSE PlaceGroups(PlaceGroup(st, pi, mapping, nd), pi + 1, mapping, nd)

\* gateway, hugepages and the top-level miscellaneous cores
PlaceTopLevel(st, mapping, nd) ==
    LET st0 == [st EXCEPT
                  !.top.data_default_gw = nd.gwip,
                  !.mem.free_hugepages_gb =
                      IF st.top.hugepages_gb > 0 THEN @ - st.top.hugepages_gb ELSE @]
        misc_cpus == GetFreeCpuBatch(st0.cores, nd.smt_enabled,
                                     mapping.cpu[Len(mapping.cpu)],
                                     Len(st0.top.misc_cores), st0.top.misc_cores_smt)
    IN IF Len(st0.top.misc_cores) # Len(misc_cpus) THEN [st0 EXCEPT !.status = "None"]
       ELSE [st0 EXCEPT
               !.top.misc_cores = AssignMisc(@, misc_cpus),
               !.cores = SetCoresUsed(@, SeqRange(misc_cpus), TRUE),
               !.used_cpus = @ \o misc_cpus,
               !.top.ctrl_vlan = nd.data_vlan,
               !.status = "ok"]

\* "for g in used_gpus: self.gpus[g].used = False": g is a device id used as a
\* list position; a position past the end raises IndexError out of the handler
RECURSIVE UnwindGpus(_, _, _)
UnwindGpus(st, used_gpus, k) ==
    IF k > Len(used_gpus) THEN st
    ELSE IF ~InRangePy(st.gpus, used_gpus[k]) THEN [st EXCEPT !.status = "IndexError2"]
    ELSE UnwindGpus([st EXCEPT !.gpus[used_gpus[k] + 1].used = FALSE], used_gpus, k + 1)

\* "for n in used_nics": self.nics[n[1]] indexes the NIC list with a bandwidth
\* and subtracts the result from a number, which raises before anything is
\* stored (TypeError; IndexError for an integral bandwidth past the list end)
UnwindNics(st) ==
    IF st.used_nics = <<>> THEN st ELSE [st EXCEPT !.status = "TypeError"]

\* the "except IndexError" handler
Unwind(st) ==
    LET st1 == [st EXCEPT !.cores = SetCoresUsed(@, SeqRange(st.used_cpus), FALSE)]
        st2 == UnwindGpus(st1, st.used_gpus, 1)
    IN IF st2.status = "IndexError2" THEN [st2 EXCEPT !.status = "IndexError"]
       ELSE UnwindNics(st2)

\* The whole call. status of the result: "ok" (returns used_nics), "None"
\* (returns None), "IndexError" or "TypeError" (the exception the caller sees).
SetPhysicalIdsFromMapping(inv, nd, mapping, t) ==
    LET st0 == [cores |-> inv.cores, gpus |-> inv.gpus, nics |-> inv.nics,
                mem |-> inv.mem, top |-> t, used_cpus |-> <<>>,
                used_gpus |-> <<>>, used_nics |-> <<>>, cidx |-> 0,
                status |-> "run"]
        st1 == PlaceGroups(st0, 1, mapping, nd)
        st2 == IF st1.status = "run" THEN PlaceTopLevel(st1, mapping, nd) ELSE st1
    IN IF st2.status = "IndexError" THEN Unwind(st2) ELSE st2

(* ---------------------------------------------------------------------- *)
(* The node under test and the requests offered to it                      *)
(* ---------------------------------------------------------------------- *)
\* labels num_sockets and num_cores (physical cores over all sockets)
NumSockets == 2
NumCores == 6

Numas == 0 .. (NumSockets - 1)

\* isolcpus absent, or every core but core 0 and its hyperthread isolated:
\* "1-5" without SMT, "1-5_7-11" with it (for six cores)
IsolChoices(smt) ==
    {[present |-> FALSE, ranges |-> <<>>],
     [present |-> TRUE,
      ranges |-> IF smt THEN <<<<(<<1, NumCores - 1>>)>>,
                               <<(<<NumCores + 1, 2 * NumCores - 1>>)>>>>
                 ELSE <<<<(<<1, NumCores - 1>>)>>>>]}

NicLabel(ifname, mac, mbs, speed, numa_node) ==
    [ifname |-> ifname, mac |-> mac, mbs |-> mbs, speed |-> speed,
     numa_node |-> numa_node]

GpuLabel(device_id, numa_node) == [device_id |-> device_id, numa_node |-> numa_node]

\* one 20 Gbps NIC per NUMA node 0 and 1, in label order
DiscoveredNics ==
    <<NicLabel(<<"e", "0">>, <<"a", "0">>, TRUE, 20000, 0),
      NicLabel(<<"e", "1">>, <<"a", "1">>, TRUE, 20000, 1)>>

\* GPU labels in scan order: device ids equal to list positions, or not
GpuInventories ==
    {<<GpuLabel(0, 0), GpuLabel(1, 1)>>, <<GpuLabel(1, 0), GpuLabel(2, 1)>>}

Pods == {<<"pod0", "default">>}

Core(name, dir, speed) ==
    [name |-> name, core |-> -1, nic_dir |-> dir, nic_speed |-> speed]

Gpu(cpu_cores) == [device_id |-> -1, cpu_cores |-> cpu_cores]

Group(proc, gs, misc, psmt, hsmt) ==
    [proc_cores |-> proc, group_gpus |-> gs, misc_cores |-> misc,
     proc_smt |-> psmt, helper_smt |-> hsmt, vlan |-> 0]

Pairing(rx, tx) ==
    [mac |-> <<>>, rx_core |-> [name |-> rx.name, nic_speed |-> rx.nic_speed],
     tx_core |-> [name |-> tx.name, nic_speed |-> tx.nic_speed]]

Topology(groups, misc, msmt, hp, pairs) ==
    [proc_groups |-> groups, misc_cores |-> misc, misc_cores_smt |-> msmt,
     hugepages_gb |-> hp, nic_core_pairing |-> pairs, data_default_gw |-> "",
     ctrl_vlan |-> 0]

Rx(n) == Core(n, "NIC_CORE_DIRECTION_RX", 10)
Tx(n) == Core(n, "NIC_CORE_DIRECTION_TX", 10)
Plain(n) == Core(n, "NIC_CORE_DIRECTION_NONE", 0)

\* one group: rx and tx core taken as a sibling pair, and a helper; a
\* top-level misc core and 1 GB of hugepages
TopFull ==
    Topology(<<Group(<<Rx("rx0"), Tx("tx0")>>, <<>>, <<Plain("h0")>>,
                     "SMT_ENABLED", "SMT_DISABLED")>>,
             <<Plain("m0")>>, "SMT_DISABLED", 1, <<Pairing(Rx("rx0"), Tx("tx0"))>>)

\* two groups, each with a GPU; the second carries the NIC cores and asks
\* for its three cores with SMT
TopTwoGroups ==
    Topology(<<Group(<<Plain("p0")>>, <<Gpu(<<Plain("g0")>>)>>, <<>>,
                     "SMT_DISABLED", "SMT_DISABLED"),
               Group(<<Rx("rx1"), Tx("tx1")>>, <<Gpu(<<Plain("g1")>>)>>, <<>>,
                     "SMT_ENABLED", "SMT_DISABLED")>>,
             <<>>, "SMT_DISABLED", 0, <<Pairing(Rx("rx1"), Tx("tx1"))>>)

\* a receive core that no NIC pairing names
TopOrphan ==
    Topology(<<Group(<<Plain("p0"), Rx("rx0")>>, <<>>, <<>>,
                     "SMT_DISABLED", "SMT_DISABLED")>>,
             <<>>, "SMT_DISABLED", 1, <<>>)

\* one group asking for sibling pairs: four processing cores, a GPU with two
\* cpu cores and two helper cores
TopPairs ==
    Topology(<<Group(<<Plain("p0"), Plain("p1"), Plain("p2"), Plain("p3")>>,
                     <<Gpu(<<Plain("g0"), Plain("g1")>>)>>,
                     <<Plain("h0"), Plain("h1")>>,
                     "SMT_ENABLED", "SMT_DISABLED")>>,
             <<>>, "SMT_DISABLED", 0, <<>>)

\* the same group without helper cores
TopPairsNoHelpers ==
    [TopPairs EXCEPT !.proc_groups[1].misc_cores = <<>>]

Requests == {TopFull, TopTwoGroups, TopOrphan, TopPairs, TopPairsNoHelpers}

EmptyTopology == Topology(<<>>, <<>>, "SMT_DISABLED", 0, <<>>)

\* A topology read back from the cluster (a pod already running): cores 0 and
\* 1, GPU device 0, the NIC with MAC A0, 1 GB of hugepages.
ObservedTop ==
    [Topology(<<[Group(<<[Rx("rx0") EXCEPT !.core = 0], [Tx("tx0") EXCEPT !.core = 1]>>,
                       <<[Gpu(<<>>) EXCEPT !.device_id = 0]>>, <<>>,
                       "SMT_DISABLED", "SMT_DISABLED") EXCEPT !.vlan = 100]>>,
              <<>>, "SMT_DISABLED", 1,
              <<[Pairing(Rx("rx0"), Tx("tx0")) EXCEPT !.mac = <<"A", "0">>]>>)
       EXCEPT !.data_default_gw = "10.0.0.1/24", !.ctrl_vlan = 100]

\* mapping decisions for request t: a NUMA node per group, one for the
\* top-level misc cores (the last group's when there are none), and a NIC
\* ordinal (0 when no core of the request has a NIC direction)
Mappings(t) ==
    LET ng == Len(t.proc_groups)
    IN {[gpu |-> g, cpu |-> Append(g, last),
         nic |-> [pi \in 1 .. ng |-> <<g[pi], ord>>]] :
           g \in [1 .. ng -> Numas],
           last \in {n \in Numas : t.misc_cores = <<>> => n = 0},
           ord \in {o \in {0, 1} :
                      (\A pi \in 1 .. ng :
                          \A ci \in 1 .. Len(t.proc_groups[pi].proc_cores) :
                             t.proc_groups[pi].proc_cores[ci].nic_dir \notin RxTx)
                      => o = 0}}

\* every core and GPU of the topology has been given a physical id
IsBound(t) ==
    /\ Len(t.proc_groups) > 0
    /\ \A c \in TopCoreIds(t) : c >= 0
    /\ \A g \in TopGpuIds(t) : g >= 0

(* ---------------------------------------------------------------------- *)
(* State machine                                                           *)
(* ---------------------------------------------------------------------- *)
Inventory == [cores |-> cores, gpus |-> gpus, nics |-> nics, mem |-> mem]

\* counters the code never limits are followed this far and no further
WithinDrift(inv) ==
    /\ inv.mem.free_hugepages_gb \in
          (0 - MaxDrift) .. (inv.mem.ttl_hugepages_gb + MaxDrift)
    /\ \A k \in 1 .. Len(inv.nics) :
          /\ inv.nics[k].pods_used \in (0 - MaxDrift) .. (1 + MaxDrift)
          /\ \A d \in 1 .. 2 :
                inv.nics[k].speed_used[d] \in
                    (0 - MaxBwDrift) .. (inv.nics[k].speed + MaxBwDrift)

Install(inv) ==
    /\ WithinDrift(inv)
    /\ cores' = inv.cores
    /\ gpus' = inv.gpus
    /\ nics' = inv.nics
    /\ mem' = inv.mem

\* one more call made, named name
Called(name) ==
    /\ calls' = calls + 1
    /\ op' = name

Init ==
    \E smt \in BOOLEAN, ginv \in GpuInventories :
      \E isol \in IsolChoices(smt) :
        LET ic == InitCores(NumSockets, NumCores, smt, isol)
        IN /\ labels = [cpu |-> "both", num_sockets |-> NumSockets,
                        num_cores |-> NumCores, smt |-> smt, isolcpus |-> isol,
                        nics |-> DiscoveredNics, gpus |-> ginv, misc |-> "both"]
           /\ node = [sockets |-> ic.sockets, numa_nodes |-> ic.numa_nodes,
                      smt_enabled |-> ic.smt_enabled,
                      cores_per_proc |-> ic.cores_per_proc,
                      reserved_cores |-> ic.reserved_cores,
                      sriov_en |-> FALSE, data_vlan |-> 100,
                      gwip |-> "10.0.0.1/24"]
           /\ cores = ic.cores
           /\ gpus = InitGpus(ginv)
           /\ nics = InitNics(DiscoveredNics)
           /\ mem = [ttl_hugepages_gb |-> 0, free_hugepages_gb |-> 0]
           /\ pods_scheduled = {}
           /\ top = EmptyTopology
           /\ op = "init"
           /\ calls = 0
           /\ placed = <<>>
           /\ live = <<>>

DoSetHugepages ==
    /\ calls < MaxCalls
    /\ \E alloc \in 0 .. MaxHugepages :
         \E free \in 0 .. alloc :
           Install(SetHugepages(Inventory, alloc, free))
    /\ Called("hugepages")
    /\ UNCHANGED <<node, pods_scheduled, top, placed, labels, live>>

Place ==
    /\ calls < MaxCalls
    /\ \E t \in Requests :
         \E mapping \in Mappings(t) :
           \E r \in {SetPhysicalIdsFromMapping(Inventory, node, mapping, t)} :
             /\ Install(r)
             /\ top' = IF r.status = "ok" THEN r.top ELSE top
             /\ placed' = <<[inv |-> Inventory, t |-> t, mapping |-> mapping,
                              out |-> r]>>
             /\ Called("set_" \o r.status)
    /\ UNCHANGED <<node, pods_scheduled, labels, live>>

Claim ==
    /\ calls < MaxCalls
    /\ op = "set_ok"
    /\ \E ni \in 0 .. (Len(nics) - 1) :
         Install([Inventory EXCEPT !.nics = ClaimPodNICResources(nics, <<ni>>)])
    /\ Called("claim")
    /\ UNCHANGED <<node, pods_scheduled, top, placed, labels, live>>

\* topologies the ledger is called with: the one the caller holds bound, and
\* the one read back from the cluster
LedgerTops == {ObservedTop} \cup (IF IsBound(top) THEN {top} ELSE {})

Remove ==
    /\ calls < MaxCalls
    /\ \E t \in LedgerTops :
         /\ Install(RemoveResourcesFromTopology(Inventory, node.sriov_en, t))
         /\ top' = t
    /\ Called("remove")
    /\ UNCHANGED <<node, pods_scheduled, placed, labels, live>>

Add ==
    /\ calls < MaxCalls
    /\ \E t \in LedgerTops :
         /\ Install(AddResourcesFromTopology(Inventory, node.sriov_en, t))
         /\ top' = t
    /\ Called("add")
    /\ UNCHANGED <<node, pods_scheduled, placed, labels, live>>

Reset ==
    /\ calls < MaxCalls
    /\ Install(ResetResources(Inventory, node.reserved_cores))
    /\ pods_scheduled' = {}
    /\ Called("reset")
    /\ UNCHANGED <<node, top, placed, labels, live>>

AddScheduledPod ==
    /\ calls < MaxCalls
    /\ \E pod \in Pods : pods_scheduled' = pods_scheduled \cup {pod}
    /\ Called("pod_add")
    /\ UNCHANGED <<node, cores, gpus, nics, mem, top, placed, labels, live>>

RemoveScheduledPod ==
    /\ calls < MaxCalls
    /\ \E pod \in pods_scheduled : pods_scheduled' = pods_scheduled \ {pod}
    /\ Called("pod_remove")
    /\ UNCHANGED <<node, cores, gpus, nics, mem, top, placed, labels, live>>

Next ==
    \/ DoSetHugepages
    \/ Place
    \/ Claim
    \/ Remove
    \/ Add
    \/ Reset
    \/ AddScheduledPod
    \/ RemoveScheduledPod

Spec == Init /\ [][Next]_vars

(* ---------------------------------------------------------------------- *)
(* Placements and releases: the caller keeps every topology it placed      *)
(* until it releases it                                                     *)
(* ---------------------------------------------------------------------- *)
\* one group on one core with a GPU that has no cpu cores of its own
TopOneGpu ==
    Topology(<<Group(<<Plain("p0")>>, <<Gpu(<<>>)>>, <<>>,
                     "SMT_DISABLED", "SMT_DISABLED")>>,
             <<>>, "SMT_DISABLED", 0, <<>>)

LiveRequests == Requests \cup {TopOneGpu}

\* the list without its element at position i
DropAt(s, i) == SubSeq(s, 1, i - 1) \o SubSeq(s, i + 1, Len(s))

\* SetPhysicalIdsFromMapping; the caller keeps the topology when it succeeds
PlaceLive ==
    /\ calls < MaxCalls
    /\ \E t \in LiveRequests :
         \E mapping \in Mappings(t) :
           \E r \in {SetPhysicalIdsFromMapping(Inventory, node, mapping, t)} :
             /\ Install(r)
             /\ top' = IF r.status = "ok" THEN r.top ELSE top
             /\ placed' = <<[inv |-> Inventory, t |-> t, mapping |-> mapping,
                              out |-> r]>>
             /\ live' = IF r.status = "ok" THEN Append(live, r.top) ELSE live
             /\ Called("set_" \o r.status)
    /\ UNCHANGED <<node, pods_scheduled, labels>>

\* AddResourcesFromTopology on a topology the caller placed earlier
Release ==
    /\ calls < MaxCalls
    /\ \E i \in 1 .. Len(live) :
         /\ Install(AddResourcesFromTopology(Inventory, node.sriov_en, live[i]))
         /\ top' = live[i]
         /\ live' = DropAt(live, i)
    /\ Called("add")
    /\ UNCHANGED <<node, pods_scheduled, placed, labels>>

NextLive ==
    \/ PlaceLive
    \/ Release

SpecLive == Init /\ [][NextLive]_vars

(* ---------------------------------------------------------------------- *)
(* Label ingestion: ParseLabels on a freshly constructed Node              *)
(* ---------------------------------------------------------------------- *)
\* largest num_sockets and num_cores labels, longest list of NIC labels
MaxLabelSockets == 2
MaxLabelCores == 8
MaxNicLabels == 3

\* isolcpus labels "2-7_10-15" and "1,3-5"
Isol_2_7_10_15 ==
    [present |-> TRUE, ranges |-> <<<<(<<2, 7>>)>>, <<(<<10, 15>>)>>>>]

Isol_1_3_5 ==
    [present |-> TRUE, ranges |-> <<<<(<<1, 1>>), (<<3, 5>>)>>>>]

\* isolcpus label "5-2,7": an inverted range and a single number
Isol_5_2_7 ==
    [present |-> TRUE, ranges |-> <<<<(<<5, 2>>), (<<7, 7>>)>>>>]

IsolLabels ==
    {[present |-> FALSE, ranges |-> <<>>], Isol_2_7_10_15, Isol_1_3_5, Isol_5_2_7}

\* NIC labels a node may carry: three schedulable ports (two on NUMA node 0),
\* a redundant f1 port, a 10 Gbps port, and a port that is down (no Mbs)
NicLabelPool ==
    {NicLabel(<<"e", "0">>, <<"a", "0">>, TRUE, 25000, 0),
     NicLabel(<<"e", "1">>, <<"a", "1", "b", "2">>, TRUE, 25000, 1),
     NicLabel(<<"e", "2">>,
              <<"a", "a", "b", "b", "c", "c", "d", "d", "e", "e", "f", "f">>,
              TRUE, 25000, 0),
     NicLabel(<<"e", "0", "f", "1">>, <<"a", "3">>, TRUE, 25000, 0),
     NicLabel(<<"e", "3">>, <<"a", "4">>, TRUE, 10000, 1),
     NicLabel(<<"e", "4">>, <<"a", "5">>, FALSE, 0, 0)}

\* label lists of at most n distinct NIC labels, in dictionary order
RECURSIVE NicLabelLists(_)
NicLabelLists(n) ==
    IF n = 0 THEN {<<>>}
    ELSE NicLabelLists(n - 1)
         \cup {Append(l, x) : l \in NicLabelLists(n - 1), x \in NicLabelPool}

DistinctLabels(l) == \A j, k \in 1 .. Len(l) : j # k => l[j] # l[k]

\* the label dictionaries offered: every CPU geometry with the two standard
\* NICs, every NIC, GPU and misc label set on one geometry, and dictionaries
\* that lack the num_cores label, the num_sockets label or both (cpu names the
\* CPU labels present, misc the DATA_PLANE_VLAN / DATA_DEFAULT_GW labels)
LabelSets ==
    {[cpu |-> "both", num_sockets |-> sk, num_cores |-> nc, smt |-> m,
      isolcpus |-> il, nics |-> DiscoveredNics, gpus |-> <<>>, misc |-> "both"] :
        sk \in 1 .. MaxLabelSockets, nc \in 1 .. MaxLabelCores, m \in BOOLEAN,
        il \in IsolLabels}
    \cup {[cpu |-> "both", num_sockets |-> NumSockets, num_cores |-> NumCores,
           smt |-> FALSE, isolcpus |-> [present |-> FALSE, ranges |-> <<>>],
           nics |-> ns, gpus |-> gs, misc |-> ms] :
             ns \in {l \in NicLabelLists(MaxNicLabels) : DistinctLabels(l)},
             gs \in {<<>>} \cup GpuInventories,
             ms \in {"none", "vlan", "gw", "both"}}
    \cup {[cpu |-> c, num_sockets |-> IF c = "sockets" THEN NumSockets ELSE 0,
           num_cores |-> IF c = "cores" THEN NumCores ELSE 0, smt |-> m,
           isolcpus |-> [present |-> FALSE, ranges |-> <<>>],
           nics |-> DiscoveredNics, gpus |-> <<>>, misc |-> ms] :
             c \in {"none", "cores", "sockets"}, m \in BOOLEAN,
             ms \in {"none", "vlan", "gw", "both"}}

\* Node.__init__
LabelInit ==
    /\ labels \in LabelSets
    /\ node = [sockets |-> 0, numa_nodes |-> 0, smt_enabled |-> FALSE,
               cores_per_proc |-> 0, reserved_cores |-> {}, sriov_en |-> FALSE,
               data_vlan |-> 0, gwip |-> "0.0.0.0/32"]
    /\ cores = <<>>
    /\ gpus = <<>>
    /\ nics = <<>>
    /\ mem = [ttl_hugepages_gb |-> 0, free_hugepages_gb |-> 0]
    /\ pods_scheduled = {}
    /\ top = EmptyTopology
    /\ op = "new"
    /\ calls = 0
    /\ placed = <<>>
    /\ live = <<>>

\* both num_cores and num_sockets are in the labels
HasCpuLabels(ls) == ls.cpu = "both"

\* InitCores: without the CPU labels the node is ignored
ParseCores ==
    /\ op = "new"
    /\ IF ~HasCpuLabels(labels)
       THEN /\ op' = "rejected"
            /\ UNCHANGED <<node, cores>>
       ELSE LET ic == InitCores(labels.num_sockets, labels.num_cores, labels.smt,
                                labels.isolcpus)
            IN /\ node' = [node EXCEPT !.sockets = ic.sockets,
                                       !.numa_nodes = ic.numa_nodes,
                                       !.smt_enabled = ic.smt_enabled,
                                       !.cores_per_proc = ic.cores_per_proc,
                                       !.reserved_cores = ic.reserved_cores]
               /\ cores' = ic.cores
               /\ op' = "cores"
    /\ UNCHANGED <<gpus, nics, mem, pods_scheduled, top, calls, placed, labels, live>>

ParseNics ==
    /\ op = "cores"
    /\ nics' = InitNics(labels.nics)
    /\ op' = "nics"
    /\ UNCHANGED <<node, cores, gpus, mem, pods_scheduled, top, calls, placed, labels, live>>

ParseGpus ==
    /\ op = "nics"
    /\ gpus' = InitGpus(labels.gpus)
    /\ op' = "gpus"
    /\ UNCHANGED <<node, cores, nics, mem, pods_scheduled, top, calls, placed, labels, live>>

\* the misc labels accepted as soon as DATA_PLANE_VLAN is there
InitMisc_VlanOnly(misc, nd) ==
    IF misc \notin {"vlan", "both"} THEN [ok |-> FALSE, node |-> nd]
    ELSE [ok |-> TRUE, node |-> [nd EXCEPT !.data_vlan = 100]]

\* InitMisc: DATA_PLANE_VLAN is looked for and read, then DATA_DEFAULT_GW
InitMisc(misc, nd) ==
    IF misc \notin {"vlan", "both"} THEN [ok |-> FALSE, node |-> nd]
    ELSE LET vl == [nd EXCEPT !.data_vlan = 100]
         IN IF misc # "both" THEN [ok |-> FALSE, node |-> vl]
            ELSE [ok |-> TRUE, node |-> [vl EXCEPT !.gwip = "10.0.0.1/24"]]

ParseMisc ==
    /\ op = "gpus"
    /\ node' = InitMisc(labels.misc, node).node
    /\ op' = IF InitMisc(labels.misc, node).ok THEN "parsed" ELSE "rejected"
    /\ UNCHANGED <<cores, gpus, nics, mem, pods_scheduled, top, calls, placed, labels, live>>

ParseLabels ==
    \/ ParseCores
    \/ ParseNics
    \/ ParseGpus
    \/ ParseMisc

SpecLabels == LabelInit /\ [][ParseLabels]_vars

(* ---------------------------------------------------------------------- *)
(* Properties                                                              *)
(* ---------------------------------------------------------------------- *)
SetRaised(o) == o \in {"set_IndexError", "set_TypeError"}

\* cores the free views count on a NUMA node
EligibleOn(numa) ==
    {c \in DOMAIN cores : cores[c].socket = numa /\ FreeCore(cores, node.smt_enabled, c)}

SmtSettings == {"SMT_ENABLED", "SMT_DISABLED"}

\* C1: whenever SetPhysicalIdsFromMapping raises, the cores, GPUs, NIC
\* bandwidth and free hugepages are on return what they were before the call.
C1_HardFailureRestoresInventory ==
    [][SetRaised(op') => Inventory' = Inventory]_vars

\* C2: whenever SetPhysicalIdsFromMapping returns None (helper or top-level
\* misc batch short), the cores, GPUs, NIC bandwidth and free hugepages are on
\* return what they were before the call.
C2_SoftFailureRestoresInventory ==
    [][op' = "set_None" => Inventory' = Inventory]_vars

\* C3: after a successful SetPhysicalIdsFromMapping, AddResourcesFromTopology
\* of the bound topology gives back the inventory from before the placement
\* (cores, GPUs, NIC rx/tx bandwidth, NIC pods_used, free hugepages).
C3_PlaceThenAddRestoresInventory ==
    [][op' = "set_ok" =>
          AddResourcesFromTopology(Inventory', node.sriov_en, top') = Inventory]_vars

\* C4 as stated: from every state and for every bound topology, Remove
\* followed by Add leaves the inventory as it was before the Remove.
C4_RemoveThenAddRestoresInventory ==
    [][op' = "remove" =>
          AddResourcesFromTopology(Inventory', node.sriov_en, top') = Inventory]_vars

\* no core and no known GPU of topology t is in use
NothingHeld(t) ==
    /\ \A c \in TopCoreIds(t) : ~cores[c].used
    /\ \A k \in 1 .. Len(gpus) : gpus[k].device_id \in TopGpuIds(t) => ~gpus[k].used

\* C4 amended: when no core and no GPU of the topology is in use before the
\* Remove, Remove followed by Add leaves the inventory as it was.
C4_RemoveThenAddRestoresUnheld ==
    [][(op' = "remove" /\ NothingHeld(top')) =>
          AddResourcesFromTopology(Inventory', node.sriov_en, top') = Inventory]_vars

\* C4 witness: Remove of the observed topology was the first call on a node
\* without reserved cores (so nothing was held), and it took cores 0 and 1,
\* the NIC with MAC A0 and a hugepage.
C4_Witness ==
    /\ op = "remove" /\ calls = 1 /\ node.reserved_cores = {}
    /\ top = ObservedTop
    /\ cores[0].used /\ cores[1].used
    /\ nics[1].pods_used = 1 /\ nics[1].speed_used = <<10, 10>>
    /\ mem.free_hugepages_gb = -1

\* C5: GetFreeCpuBatch returns fewer than n entries whenever fewer than n
\* cores of the NUMA node are eligible, and a placement whose first group
\* needs more cores than are eligible on its NUMA node raises and leaves every
\* free core free.
C5_ShortfallDetected ==
    /\ \A numa \in Numas, smt \in SmtSettings, n \in 0 .. (2 * NumCores + 1) :
          Cardinality(EligibleOn(numa)) < n =>
             Len(GetFreeCpuBatch(cores, node.smt_enabled, numa, n, smt)) < n
    /\ \A t \in Requests :
          \A mapping \in Mappings(t) :
             LET pv == t.proc_groups[1]
                 need == Len(pv.proc_cores)
                         + SumSeq([g \in 1 .. Len(pv.group_gpus) |->
                                      Len(pv.group_gpus[g].cpu_cores)])
                 r == SetPhysicalIdsFromMapping(Inventory, node, mapping, t)
             IN need > Cardinality(EligibleOn(mapping.gpu[1])) =>
                   /\ SetRaised("set_" \o r.status)
                   /\ \A c \in DOMAIN cores : ~cores[c].used => ~r.cores[c].used

\* C6: every NIC has rx_used <= speed * 0.9 and tx_used <= speed * 0.9.
C6_NicBandwidthBounded ==
    \A k \in 1 .. Len(nics) :
       \A d \in 1 .. 2 : 10 * nics[k].speed_used[d] <= 9 * nics[k].speed

\* C7: every NIC has rx_used >= 0 and tx_used >= 0.
C7_NicBandwidthNonNegative ==
    \A k \in 1 .. Len(nics) : \A d \in 1 .. 2 : nics[k].speed_used[d] >= 0

\* C8: every NIC has pods_used >= 0.
C8_PodsUsedNonNegative ==
    \A k \in 1 .. Len(nics) : nics[k].pods_used >= 0

\* C9: 0 <= free_hugepages_gb <= ttl_hugepages_gb.
C9_HugepagesBounded ==
    /\ 0 <= mem.free_hugepages_gb
    /\ mem.free_hugepages_gb <= mem.ttl_hugepages_gb

\* C10: every core in reserved_cores is used.
C10_ReservedCoresUsed ==
    \A c \in node.reserved_cores : cores[c].used

\* everything a SetPhysicalIdsFromMapping call hands back for request t under
\* mapping m when started in the current state: result, bound topology
\* (core ids, GPU device ids, NIC bindings) and resulting inventory
PlacementOutcome(t, m) == SetPhysicalIdsFromMapping(Inventory, node, m, t)

C12_FreeCpuPerNumaMatchesCount ==
    /\ \A k \in Numas :
          GetFreeCpuCores(cores, node)[k] = Cardinality(EligibleOn(k))
    /\ SumSeq([k \in 1 .. node.numa_nodes |-> GetFreeCpuCores(cores, node)[k - 1]])
          = GetFreeCpuCoreCount(cores, node.smt_enabled)

\* group pi of topology t has a core with a NIC direction
GroupUsesNic(t, pi) ==
    \E ci \in 1 .. Len(t.proc_groups[pi].proc_cores) :
       t.proc_groups[pi].proc_cores[ci].nic_dir \in RxTx

\* the NIC at list position k (1-based) is the one mapping m selects for group pi
NicOfGroup(k, m, pi) ==
    nics[k].numa_node = m.gpu[pi] /\ nics[k].idx = m.nic[pi][2]

\* C13: after a successful SetPhysicalIdsFromMapping, for every processing
\* group pi the cores given to its proc cores, GPU cpu cores and helper cores
\* are on socket mapping.gpu[pi], its GPUs are on NUMA node mapping.gpu[pi],
\* the NIC bound to its rx/tx cores has that NUMA node and the ordinal of
\* mapping.nic[pi], and every NIC whose used bandwidth changed is the NIC so
\* selected for some group with rx/tx cores.
C13_NumaCoLocation ==
    op = "set_ok" =>
       LET m == placed[1].mapping
           before == placed[1].inv
       IN /\ \A pi \in 1 .. Len(top.proc_groups) :
                LET pv == top.proc_groups[pi]
                IN /\ \A c \in GroupCoreIds(pv) :
                         c \in DOMAIN cores /\ cores[c].socket = m.gpu[pi]
                   /\ \A g \in 1 .. Len(pv.group_gpus) :
                         \E k \in 1 .. Len(gpus) :
                            /\ gpus[k].device_id = pv.group_gpus[g].device_id
                            /\ gpus[k].numa_node = m.gpu[pi]
                   /\ \A ci \in 1 .. Len(pv.proc_cores) :
                         pv.proc_cores[ci].nic_dir \in RxTx =>
                            \E k \in 1 .. Len(nics) :
                               /\ NicOfGroup(k, m, pi)
                               /\ At(top.nic_core_pairing,
                                     GetNICGroup(top, pv.proc_cores[ci])).mac
                                     = nics[k].mac
          /\ \A k \in 1 .. Len(nics) :
                nics[k].speed_used # before.nics[k].speed_used =>
                   \E pi \in 1 .. Len(top.proc_groups) :
                      GroupUsesNic(top, pi) /\ NicOfGroup(k, m, pi)

\* C13 witness: the two-group request was placed with its groups on different
\* NUMA nodes; the second group holds a GPU and charged the NIC of NUMA node 1.
C13_Witness ==
    /\ op = "set_ok"
    /\ Len(top.proc_groups) = 2
    /\ placed[1].mapping.gpu = <<0, 1>>
    /\ top.proc_groups[2].group_gpus[1].device_id >= 0
    /\ nics[2].speed_used = <<10, 10>>

\* every core and every existing GPU that topology t names has used = val
AllMarked(t, val) ==
    /\ \A c \in TopCoreIds(t) : cores[c].used = val
    /\ \A k \in 1 .. Len(gpus) :
          gpus[k].device_id \in TopGpuIds(t) => gpus[k].used = val

\* C14: RemoveResourcesFromTopology(top) ends with every core and every
\* existing GPU of top marked used, and AddResourcesFromTopology(top) ends with
\* every one of them marked unused, whatever their state was before the call
\* (some already used, some already unused).
C14_LedgerDriftDoesNotAbort ==
    /\ op = "remove" => AllMarked(top, TRUE)
    /\ op = "add" => AllMarked(top, FALSE)

\* C14 witness: the first call on a node with a reserved core 0 was a Remove of
\* the observed topology, which names core 0 (already used) and core 1 (free
\* until then); both are used now.
C14_Witness ==
    /\ op = "remove" /\ calls = 1
    /\ 0 \in node.reserved_cores
    /\ top = ObservedTop
    /\ cores[0].used /\ cores[1].used

\* C15: ResetResources yields the state in which a core is used exactly when
\* it is reserved, every GPU is unused, every NIC has rx_used = tx_used = 0 and
\* pods_used = 0, free hugepages equal total hugepages and no pod is scheduled,
\* with sibling, socket, NIC and GPU identity fields as they were.
C15_ResetRestoresCapacity ==
    [][op' = "reset" =>
          /\ cores' = [c \in DOMAIN cores |->
                         [cores[c] EXCEPT !.used = (c \in node.reserved_cores)]]
          /\ gpus' = [k \in DOMAIN gpus |-> [gpus[k] EXCEPT !.used = FALSE]]
          /\ nics' = [k \in DOMAIN nics |->
                        [nics[k] EXCEPT !.speed_used = <<0, 0>>, !.pods_used = 0]]
          /\ mem' = [mem EXCEPT !.free_hugepages_gb = mem.ttl_hugepages_gb]
          /\ pods_scheduled' = {}]_vars

\* NUMA node 1 of inventory inv has exactly six free logical cores, which
\* form three free sibling pairs
SixFreeAsPairs(inv) ==
    LET free == {c \in DOMAIN inv.cores :
                    inv.cores[c].socket = 1 /\ FreeCore(inv.cores, node.smt_enabled, c)}
    IN /\ node.smt_enabled
       /\ Cardinality(free) = 6
       /\ \A c \in free : inv.cores[c].sibling \in free

\* the latest call placed request t on NUMA node 1 of a node whose NUMA node 1
\* had six free cores in three pairs
PairScenario(t) ==
    /\ placed # <<>>
    /\ op \in {"set_ok", "set_None", "set_IndexError", "set_TypeError"}
    /\ placed[1].t = t
    /\ placed[1].mapping.gpu = <<1>>
    /\ SixFreeAsPairs(placed[1].inv)

\* the call succeeded, the six cores of NUMA node 1 are used and are the ones
\* bound in the topology, handed out two siblings at a time, and
\* GetFreeCpuCoreCount went down by 6
AllSixConsumed ==
    /\ op = "set_ok"
    /\ \A c \in DOMAIN cores : cores[c].socket = 1 => cores[c].used
    /\ GroupCoreIds(top.proc_groups[1])
          = {c \in DOMAIN cores : cores[c].socket = 1}
    /\ LET pv == top.proc_groups[1]
           given == [k \in 1 .. 2 |-> pv.group_gpus[1].cpu_cores[k].core]
                    \o [k \in 1 .. 4 |-> pv.proc_cores[k].core]
       IN \A k \in {1, 3, 5} : cores[given[k]].sibling = given[k + 1]
    /\ GetFreeCpuCoreCount(cores, node.smt_enabled)
          = GetFreeCpuCoreCount(placed[1].inv.cores, node.smt_enabled) - 6

\* C16 as stated: with exactly 6 free logical cores in 3 sibling pairs on NUMA
\* node 1, placing one group with 4 proc cores, 1 GPU with 2 cpu cores and 2
\* misc cores, proc_smt = REQUIRE, on NUMA node 1 succeeds, consumes all 6
\* cores as pairs and lowers FreeCpuCoreCount by 6.
C16_PairPlacementWithHelpers ==
    PairScenario(TopPairs) => AllSixConsumed

\* C16 amended: the same placement of a group with 4 proc cores and 1 GPU with
\* 2 cpu cores and no misc cores, with a free GPU on NUMA node 1, succeeds,
\* consumes all 6 cores as pairs and lowers FreeCpuCoreCount by 6.
C16_PairPlacement ==
    (/\ PairScenario(TopPairsNoHelpers)
     /\ GetNextGpuFree(placed[1].inv.gpus, 1) # -1) => AllSixConsumed

\* C16 witness: the group without misc cores was placed on NUMA node 1 of an
\* untouched SMT node; its GPU cpu cores hold the pair 3/9 and its proc cores
\* the pairs 4/10 and 5/11.
C16_Witness ==
    /\ PairScenario(TopPairsNoHelpers)
    /\ op = "set_ok"
    /\ top.proc_groups[1].group_gpus[1].cpu_cores[1].core = 3
    /\ top.proc_groups[1].group_gpus[1].cpu_cores[2].core = 9
    /\ top.proc_groups[1].proc_cores[1].core = 4
    /\ top.proc_groups[1].proc_cores[2].core = 10
    /\ top.proc_groups[1].proc_cores[4].core = 11

\* InitCores has run on the labels num_sockets = 2, num_cores = 8, SMT on,
\* isolcpus = 2-7_10-15
IsolScenario ==
    /\ op \in {"cores", "nics", "gpus", "parsed"}
    /\ labels.num_sockets = 2 /\ labels.num_cores = 8 /\ labels.smt
    /\ labels.isolcpus = Isol_2_7_10_15

\* 12 schedulable logical cores, the reserved cores are exactly the used
\* cores, and they are 0, 1, 8 and 9
TwelveSchedulable ==
    /\ GetFreeCpuCoreCount(cores, node.smt_enabled) = 12
    /\ node.reserved_cores = {0, 1, 8, 9}
    /\ {c \in DOMAIN cores : cores[c].used} = {0, 1, 8, 9}

\* C17 as stated: for 2 sockets x 8 cores, SMT on, isolcpus = 2-7_10-15,
\* InitCores yields 12 schedulable logical cores, 6 per socket, and the cores
\* reserved and marked used are exactly {0,1,8,9}.
C17_IsolatedCpusSixPerSocket ==
    IsolScenario =>
       /\ TwelveSchedulable
       /\ \A k \in 0 .. 1 : Cardinality(EligibleOn(k)) = 6

\* C17 amended: for the labels num_sockets = 2, num_cores = 8, SMT on,
\* isolcpus = 2-7_10-15, InitCores yields 16 logical cores of which 12 are
\* schedulable, 4 on socket 0 (2, 3, 10, 11) and 8 on socket 1 (4-7, 12-15),
\* and the cores reserved and marked used are exactly {0,1,8,9}.
C17_IsolatedCpuIngestion ==
    IsolScenario =>
       /\ DOMAIN cores = 0 .. 15
       /\ TwelveSchedulable
       /\ EligibleOn(0) = {2, 3, 10, 11}
       /\ EligibleOn(1) = (4 .. 7) \cup (12 .. 15)

\* C17 witness: InitCores has just run on those labels; core 9 is reserved and
\* used, core 10 is free on socket 0 with sibling 2.
C17_Witness ==
    /\ IsolScenario /\ op = "cores"
    /\ 9 \in node.reserved_cores /\ cores[9].used
    /\ ~cores[10].used /\ cores[10].socket = 0 /\ cores[10].sibling = 2

\* C18: with SMT on, every core c has a sibling s that is a valid core index
\* other than c, whose sibling is c, and that is on the socket of c.
C18_SiblingSymmetry ==
    node.smt_enabled =>
       \A c \in DOMAIN cores :
          LET sb == cores[c].sibling
          IN /\ sb \in DOMAIN cores
             /\ sb # c
             /\ cores[sb].sibling = c
             /\ cores[sb].socket = cores[c].socket

\* C18 witness: a node with 2 sockets and 7 cores, SMT on, was ingested; core
\* 3 is on socket 0, core 4 on socket 1, and core 4 has sibling 11.
C18_Witness ==
    /\ op = "parsed" /\ node.smt_enabled
    /\ node.sockets = 2 /\ DOMAIN cores = 0 .. 13
    /\ cores[3].socket = 0 /\ cores[4].socket = 1
    /\ cores[4].sibling = 11 /\ cores[11].sibling = 4

\* list positions of the NICs on NUMA node numa
NicsOn(numa) == {k \in 1 .. Len(nics) : nics[k].numa_node = numa}

\* C19: on every NUMA node the numa_ordinal values of its NICs are 0..k-1 in
\* scan order (each NIC's ordinal is the number of NICs of its NUMA node that
\* precede it in the list), so no two NICs share (numa, ordinal) and the
\* placement lookup by ordinal and NUMA node matches at most one NIC.
C19_NumaOrdinalsDense ==
    /\ \A k \in 1 .. Len(nics) :
          nics[k].idx = Cardinality({j \in NicsOn(nics[k].numa_node) : j < k})
    /\ \A numa \in 0 .. 1 :
          {nics[k].idx : k \in NicsOn(numa)} = 0 .. (Cardinality(NicsOn(numa)) - 1)
    /\ \A numa \in 0 .. 1, ord \in 0 .. MaxNicLabels :
          Cardinality({k \in NicsOn(numa) : nics[k].idx = ord}) <= 1

\* C19 witness: three NIC labels were ingested, NUMA nodes 0, 1, 0 in that
\* order; the ordinals are 0, 0, 1.
C19_Witness ==
    /\ op = "nics"
    /\ Len(nics) = 3
    /\ nics[1].numa_node = 0 /\ nics[2].numa_node = 1 /\ nics[3].numa_node = 0
    /\ nics[1].idx = 0 /\ nics[2].idx = 0 /\ nics[3].idx = 1

\* C20: FormatMac(FormatMac(x)) = FormatMac(x) for every raw MAC x of a NIC
\* label.
C20_FormatMacIdempotent ==
    \A k \in 1 .. Len(labels.nics) :
       FormatMac(FormatMac(labels.nics[k].mac)) = FormatMac(labels.nics[k].mac)

\* the isolcpus label has a token lo-hi with lo > hi
HasInvertedRange(isolrange) ==
    \E k \in 1 .. Len(isolrange) :
       \E j \in 1 .. Len(isolrange[k]) : isolrange[k][j][1] > isolrange[k][j][2]

\* C21: a range list with a token lo-hi, lo > hi, is an error: a node whose
\* isolcpus label holds such a token gets no result from the range parser, so
\* its core ingestion never completes.
C21_InvertedRangeRejected ==
    (HasCpuLabels(labels) /\ labels.isolcpus.present
       /\ HasInvertedRange(labels.isolcpus.ranges))
      => op \in {"new", "rejected"}

\* the four required labels are all in the label map
AllRequiredLabels(ls) == ls.cpu = "both" /\ ls.misc = "both"

\* C22: ParseLabels returns true only for a label map that has the
\* socket-count, core-count, DATA_PLANE_VLAN and DATA_DEFAULT_GW labels; for a
\* map that lacks one of them it ends by returning false, and without the CPU
\* labels it does so before anything is ingested.
C22_IncompleteLabelsRejected ==
    /\ op = "parsed" => AllRequiredLabels(labels)
    /\ (~AllRequiredLabels(labels) /\ ~ENABLED ParseLabels) => op = "rejected"
    /\ (~HasCpuLabels(labels) /\ op # "new") => op = "rejected" /\ cores = <<>>

\* C22 witness: a map with both CPU labels and DATA_DEFAULT_GW but without
\* DATA_PLANE_VLAN went through cores, NICs and GPUs and was rejected.
C22_Witness ==
    /\ op = "rejected"
    /\ labels.cpu = "both" /\ labels.misc = "gw"
    /\ cores # <<>> /\ Len(nics) > 0 /\ Len(gpus) > 0
    /\ node.data_vlan = 0

\* number of cores topology t asks for: proc cores, GPU cpu cores and helper
\* cores of every group, and the top-level misc cores
CoreSlots(t) ==
    SumSeq([pi \in 1 .. Len(t.proc_groups) |->
              LET pv == t.proc_groups[pi]
              IN Len(pv.proc_cores) + Len(pv.misc_cores)
                 + SumSeq([gi \in 1 .. Len(pv.group_gpus) |->
                             Len(pv.group_gpus[gi].cpu_cores)])])
    + Len(t.misc_cores)

\* no core id occurs twice in the list
NoRepeat(ids) == \A j, k \in 1 .. Len(ids) : j # k => ids[j] # ids[k]

\* C23: after a successful SetPhysicalIdsFromMapping the core ids written into
\* the topology are pairwise distinct, each was unused when the call started
\* and each is used when it returns; and no GetFreeCpuBatch result holds the
\* same core id twice, for every NUMA node, SMT setting and n.
C23_NoCoreAssignedTwice ==
    /\ \A k \in 1 .. Len(placed) :
          placed[k].out.status = "ok" =>
             LET ids == TopCoreIds(placed[k].out.top)
             IN /\ Cardinality(ids) = CoreSlots(placed[k].t)
                /\ \A c \in ids : /\ ~placed[k].inv.cores[c].used
                                  /\ placed[k].out.cores[c].used
    /\ \A numa \in Numas, smt \in SmtSettings, n \in 0 .. (2 * NumCores + 1) :
          NoRepeat(GetFreeCpuBatch(cores, node.smt_enabled, numa, n, smt))

\* two different live topologies name a common core
ShareCore(a, b) == TopCoreIds(a) \cap TopCoreIds(b) # {}

\* with SMT on, a core of topology a is the sibling of a core of topology b
SplitSiblings(a, b) ==
    node.smt_enabled /\ \E c \in TopCoreIds(a) : cores[c].sibling \in TopCoreIds(b)

\* C24: over placements (successful or failed) and releases of placed
\* topologies, no core is held by two live topologies at once, and with SMT on
\* no two live topologies hold the two siblings of one physical core; a
\* successful placement is handed no core that is used or whose sibling is used.
C24_CoreExclusivity ==
    /\ \A i, j \in 1 .. Len(live) :
          i # j => ~ShareCore(live[i], live[j]) /\ ~SplitSiblings(live[i], live[j])
    /\ \A k \in 1 .. Len(placed) :
          placed[k].out.status = "ok" =>
             \A c \in TopCoreIds(placed[k].out.top) :
                FreeCore(placed[k].inv.cores, node.smt_enabled, c)

\* C24 witness: with SMT on, a placement failed and was rolled back while two
\* topologies placed before it are live, one of them holding a core without
\* its sibling.
C24_Witness ==
    /\ node.smt_enabled
    /\ Len(live) = 2
    /\ op = "set_IndexError"
    /\ \E c \in TopCoreIds(live[1]) : cores[c].sibling \notin TopCoreIds(live[1])

\* device ids two live topologies hold are different, and every GPU a live
\* topology holds is marked used
GpuHeldOnce ==
    \A i \in 1 .. Len(live) :
       /\ \A j \in 1 .. Len(live) :
             i # j => TopGpuIds(live[i]) \cap TopGpuIds(live[j]) = {}
       /\ \A k \in 1 .. Len(gpus) :
             gpus[k].device_id \in TopGpuIds(live[i]) => gpus[k].used

\* C25: over placements (successful, or failed and rolled back) and releases,
\* no GPU device is held by two live topologies at once, and a GPU a live
\* topology holds stays marked used, whatever the device ids of the GPUs are.
C25_GpuExclusivity == GpuHeldOnce

\* C26: in every reachable state, for every NUMA node k, every SMT setting and
\* every n from 0 to GetFreeCpuCores()[k], GetFreeCpuBatch(k, n, smt) returns
\* exactly n pairwise distinct core ids, each on socket k, unused and, with SMT
\* on, with an unused sibling.
C26_FreeViewAgreesWithBatch ==
    \A numa \in Numas, smt \in SmtSettings :
       \A n \in 0 .. GetFreeCpuCores(cores, node)[numa] :
          LET b == GetFreeCpuBatch(cores, node.smt_enabled, numa, n, smt)
          IN /\ Len(b) = n
             /\ NoRepeat(b)
             /\ \A j \in 1 .. Len(b) :
                   /\ cores[b[j]].socket = numa
                   /\ FreeCore(cores, node.smt_enabled, b[j])

\* C26 witness: with SMT on, after a successful placement that left NUMA
\* node 1 with two free physical cores, a batch of two with SMT is core 4 and
\* its sibling 10.
C26_Witness ==
    /\ op = "set_ok"
    /\ node.smt_enabled
    /\ cores[3].used
    /\ GetFreeCpuCores(cores, node)[1] = 2
    /\ GetFreeCpuBatch(cores, TRUE, 1, 2, "SMT_ENABLED") = <<4, 10>>

====
